---- MODULE Spec2Model ----
(***************************************************************************)
(* A model of barman/output.py: the output facade (debug, info, warning,   *)
(* error, exception, init, result, close, close_and_exit,                  *)
(* set_output_writer), the module globals error_occurred, error_exit_code  *)
(* and _writer, and the two writer classes ConsoleOutputWriter and         *)
(* NagiosOutputWriter.                                                     *)
(*                                                                         *)
(* The module is single threaded: every facade call runs to completion, so *)
(* one action is one facade call.  The functions of the module are         *)
(* operators over a record M that holds the module globals (the active     *)
(* writer instance among them) and what the call in progress has done so   *)
(* far: the writer methods it invoked, the lines it printed, the records   *)
(* it logged and how it ended.  After a call the command layer proceeds to *)
(* its next call (Proceed), which starts with an empty trace.              *)
(***************************************************************************)
EXTENDS Integers, Sequences, FiniteSets, TLC

VARIABLES
    error_occurred,   \* output.py:37, module global
    error_exit_code,  \* output.py:40, module global
    _writer,          \* output.py:635, the active writer instance
    created,          \* number of writer instances constructed so far
    pc,               \* "ready", "done" (a call ended), "exited" (sys.exit)
    exit_status,      \* the argument of sys.exit, meaningful when pc = "exited"
    call,             \* the last facade call and its arguments
    events,           \* writer methods invoked by the last call, in order
    printed,          \* lines printed by the last call, in order
    logged,           \* records sent to logging by the last call, in order
    outcome,          \* how the last call ended: "return" or the exception raised
    steps,            \* what the last call did, in order: the assignment of
                      \* error_occurred, the writer methods, logger.log
    returned          \* the value returned by the last call of _format_message
                      \* made on its own (FormatSpec)

vars == <<error_occurred, error_exit_code, _writer, created, pc, exit_status,
          call, events, printed, logged, outcome, steps, returned>>

----
\* Bounds of the model

\* writer instances constructed in one run, the initial one included
MaxWriters == 3
\* records (CheckResult and StatusResult) held by one writer
MaxChecks == 2
\* close() invocations on one writer instance
MaxClose == 2
\* tokens of a template given to _format_message on its own
MaxLen == 3

----
\* Input domains

Messages == {<<"msg">>}
\* a template with a conversion, and the positional arguments of a severity
\* call: none or one string
Templates == Messages \cup {<<"msg ", "%s">>}
EmitArgs == {<<>>, <<[isdict |-> FALSE, str |-> "x", map |-> <<>>]>>}
Servers == {"pg1", "pg2"}
Checks == {"ssh"}
\* A Python object as far as the module looks at it: its truth value, bool(v),
\* and its text, str(v).  None is false and reads "None"; a str is true unless
\* it is empty, so the str 'None' is not None
None == [truth |-> FALSE, str |-> "None"]
StrValue(s) == [truth |-> (s # ""), str |-> s]
\* hint=None, an empty hint and a hint with text
NoHint == None
Hints == {NoHint, StrValue(""), StrValue("hint")}
\* the module of the frame that called the facade, inspect.getmodule(frm[0]):
\* a module of barman, or None for code that belongs to no module (run by
\* exec, or given on the command line of the interpreter)
Callers == {StrValue("barman.cli"), None}
Levels == {"debug", "info", "warning", "error", "exception"}
\* keyword options a caller passes to a severity call: log=False, ignore=True
\* (the documented options, at the value that is not their default) and
\* bogus=True, an option the module does not know
OptionNames == {"log", "ignore", "bogus"}
Kwargs ==
    {[k \in D |-> (k # "log")] : D \in SUBSET OptionNames}
NoKwargs == [k \in {} |-> TRUE]
\* raise_exception=X of exception(): X false, a callable, an exception
\* object, or another true value
RaiseValues == {"False", "callable", "error", "True"}
\* the exception the caller is handling when it calls the facade
Handled == {"None", "IOError"}
RaiseKwargs ==
    {[k \in D \cup {"raise_exception"} |->
         IF k = "raise_exception" THEN x ELSE (k # "log")] :
        D \in SUBSET {"log", "ignore"}, x \in RaiseValues}
\* the keyword options given to the call of a severity function
KwargsOf(level) ==
    CASE level \in {"debug", "info", "warning"} ->
            {kw \in Kwargs : Cardinality(DOMAIN kw) <= 1}
      [] level = "error" ->
            Kwargs \cup {kw \in RaiseKwargs :
                            DOMAIN kw = {"raise_exception"} /\ kw.raise_exception = "True"}
      [] level = "exception" -> Kwargs \cup RaiseKwargs
InitCommands ==
    {"check", "backup", "status", "list_backup", "list_server", "show_server",
     "nosuchcommand"}
ResultCommands ==
    {"check", "backup", "status", "list_backup", "list_server", "show_backup",
     "show_server", "check_list", "nosuchcommand"}
\* the keyword arguments of init("list_backup", ...) and init("list_server",
\* ...): minimal left out, minimal=True, minimal=False
MinimalKwargs ==
    {[k \in D |-> v] : D \in SUBSET {"minimal"}, v \in BOOLEAN}
\* BackupInfo objects, end_time given by the text of end_time.ctime(): a
\* failed backup, a finished one, a finished one with a tablespace
EndTime == "Thu Jan  1 00:00:00 1970"
FailedBackup ==
    [server_name |-> "pg1", backup_id |-> "B1", status |-> "FAILED",
     end_time |-> EndTime, tablespaces |-> <<>>]
BackupInfos ==
    {FailedBackup,
     [FailedBackup EXCEPT !.status = "DONE"],
     [FailedBackup EXCEPT !.status = "DONE",
         !.tablespaces = <<[name |-> "ts1", location |-> "/mnt/ts1"]>>]}
\* the message of result("status", ...): a str, or a unicode string with a
\* character outside ASCII
StatusMessages ==
    {[type |-> "str", text |-> "ok", ascii |-> TRUE],
     [type |-> "unicode", text |-> "caf\\xe9", ascii |-> FALSE]}
Descriptions == {None, StrValue(""), StrValue("main db")}
\* the retention_status of result("list_backup", ...)
RetentionStatuses == {None, StrValue(""), StrValue("VALID")}
\* the argument of result("show_backup", ...): a dict, given by its items, or
\* an object dict() cannot convert, the str 'abc'.  The values of the dict
\* are objects given by their truth value and text, but for the sizes, which
\* are numbers, and the tablespaces, a list
Dict(data) == [isdict |-> TRUE, data |-> data]
NotADict == [isdict |-> FALSE, data |-> [k \in {} |-> None]]
FailedInfo ==
    [backup_id |-> StrValue("B1"), server_name |-> StrValue("pg1"),
     status |-> StrValue("FAILED"), error |-> StrValue("e")]
DoneInfo ==
    [backup_id |-> StrValue("B1"), server_name |-> StrValue("pg1"),
     status |-> StrValue("DONE"), version |-> StrValue("90400"),
     pgdata |-> StrValue("/pgdata"),
     tablespaces |-> <<[name |-> "ts1", location |-> "/mnt/ts1", oid |-> "16"]>>,
     size |-> 512, wal_size |-> 16, timeline |-> StrValue("1"),
     begin_wal |-> StrValue("W1"), end_wal |-> StrValue("W2"),
     wal_num |-> StrValue("2"), begin_time |-> StrValue(EndTime),
     end_time |-> StrValue(EndTime), begin_offset |-> StrValue("40"),
     end_offset |-> StrValue("184"), begin_xlog |-> StrValue("0/1"),
     end_xlog |-> StrValue("0/2"), wal_until_next_num |-> StrValue("3"),
     wal_until_next_size |-> 48, wal_last |-> StrValue("W5"),
     retention_policy_status |-> None, previous_backup_id |-> None,
     next_backup_id |-> StrValue("B2")]
\* a dict without the keys in keys
Missing(data, keys) == [k \in (DOMAIN data) \ keys |-> data[k]]
BackupExtInfos ==
    {NotADict,
     Dict(FailedInfo),
     Dict([FailedInfo EXCEPT !.error = None]),
     Dict(Missing(FailedInfo, {"error"})),
     Dict(DoneInfo),
     Dict(Missing([DoneInfo EXCEPT !.tablespaces = <<>>,
                                   !.retention_policy_status = StrValue("VALID"),
                                   !.previous_backup_id = StrValue("B0")],
                  {"next_backup_id"})),
     Dict(Missing(DoneInfo, {"version"}))}
\* the server_info of result("show_server", ...), given by server_info.items()
ServerInfos ==
    {<<>>,
     <<[status |-> "conf", message |-> "x"]>>,
     <<[status |-> "conf", message |-> "x"],
       [status |-> "active", message |-> "True"]>>}
\* the (debug, quiet) arguments of a writer constructor
Flags == BOOLEAN \X BOOLEAN
\* the classes of the instances a caller constructs itself: the registry
\* builds the console writer
InstanceClasses == {"NagiosOutputWriter"}

----
\* dict helpers

\* kwargs.pop(key, default)
Pop(kwargs, key, default) ==
    IF key \in DOMAIN kwargs THEN kwargs[key] ELSE default

\* kwargs after kwargs.pop(key, ...)
Without(kwargs, key) ==
    [k \in (DOMAIN kwargs) \ {key} |-> kwargs[k]]

\* kwargs after kwargs.setdefault(key, value)
SetDefault(kwargs, key, value) ==
    [k \in (DOMAIN kwargs) \cup {key} |->
        IF k \in DOMAIN kwargs THEN kwargs[k] ELSE value]

----
\* Writer instances

\* ConsoleOutputWriter.__init__ (inherited by NagiosOutputWriter).  id tells
\* the instances apart; closes is a history field counting the close()
\* invocations on the instance
NewWriter(id, cls, dbg, qt) ==
    [id |-> id, cls |-> cls, _debug |-> dbg, _quiet |-> qt,
     result_check_list |-> <<>>, result_status_list |-> <<>>,
     minimal |-> FALSE, closes |-> 0]

\* a registry in which the Nagios writer is registered as well
AVAILABLE_WRITERS_nagios ==
    [n \in {"console", "nagios"} |->
        IF n = "console" THEN "ConsoleOutputWriter" ELSE "NagiosOutputWriter"]

\* AVAILABLE_WRITERS: the registry maps "console" to ConsoleOutputWriter
AVAILABLE_WRITERS == [n \in {"console"} |-> "ConsoleOutputWriter"]
DEFAULT_WRITER == "console"

\* the callable attributes of a writer named init_<name> or result_<name>:
\* methods of ConsoleOutputWriter, inherited by NagiosOutputWriter
Methods ==
    {"result_backup", "init_check", "result_check", "init_list_backup",
     "result_list_backup", "result_show_backup", "init_status",
     "result_status", "init_list_server", "result_list_server",
     "init_show_server", "result_show_server"}

\* the object has the attributes of a writer: it is an instance of
\* ConsoleOutputWriter or of its subclass.  A str installed as the active
\* writer has none of them: looking one up raises AttributeError, and
\* getattr(obj, name, None) gives None
HasMethods(w) == w.cls \in {"ConsoleOutputWriter", "NagiosOutputWriter"}

\* one more step of the call in progress
Step(M, what) == [M EXCEPT !.steps = Append(@, what)]

\* one invocation of a method of the active writer
Invoke(M, method) ==
    Step([M EXCEPT !.events = Append(@, [w |-> M._writer.id, m |-> method])],
         method)

\* a raise: the call in progress ends with the exception
Raise(M, exc) == [M EXCEPT !.outcome = exc]

----
\* Message formatting and the streams

\* A template is a sequence of tokens: a conversion "%s", a keyed conversion
\* "%(a)s" or "%(b)s", the escape "%%", the unsupported conversion "%z", or
\* literal text.  An argument is a string or a dict.  A conversion takes its
\* argument before its type is looked at, so "%z" with no argument left
\* fails for the missing argument.
NoMap == [k \in {} |-> ""]
StrArg(s) == [isdict |-> FALSE, str |-> s, map |-> NoMap]
DictArg(m) == [isdict |-> TRUE, str |-> "{dict}", map |-> m]
KeyedTokens == [t \in {"%(a)s", "%(b)s"} |-> IF t = "%(a)s" THEN "a" ELSE "b"]

Formatted(text) == [exc |-> "none", text |-> text]
FormatError(exc) == [exc |-> exc, text |-> <<>>]
\* returned before _format_message has been called
NotCalled == [exc |-> "not called", text |-> <<>>]
Cons(token, r) ==
    IF r.exc = "none" THEN Formatted(<<token>> \o r.text) ELSE r

\* message % args for a tuple args: conversions consume the elements in order
RECURSIVE PercentTuple(_, _)
PercentTuple(message, args) ==
    IF Len(message) = 0
    THEN IF Len(args) > 0 THEN FormatError("TypeError") ELSE Formatted(<<>>)
    ELSE LET t == Head(message) IN
         IF t = "%s"
         THEN IF Len(args) = 0 THEN FormatError("TypeError")
              ELSE Cons(Head(args).str, PercentTuple(Tail(message), Tail(args)))
         ELSE IF t \in DOMAIN KeyedTokens THEN FormatError("TypeError")
         ELSE IF t = "%z"
         THEN FormatError(IF Len(args) = 0 THEN "TypeError" ELSE "ValueError")
         ELSE IF t = "%%" THEN Cons("%", PercentTuple(Tail(message), args))
         ELSE Cons(t, PercentTuple(Tail(message), args))

\* message % d for a dict d: keyed conversions look the key up; a plain
\* conversion renders the whole dict, once, and only before any keyed one
RECURSIVE PercentDict(_, _, _)
PercentDict(message, d, unused) ==
    IF Len(message) = 0 THEN Formatted(<<>>)
    ELSE LET t == Head(message) IN
         IF t = "%s"
         THEN IF ~unused THEN FormatError("TypeError")
              ELSE Cons(d.str, PercentDict(Tail(message), d, FALSE))
         ELSE IF t \in DOMAIN KeyedTokens
         THEN IF KeyedTokens[t] \notin DOMAIN d.map THEN FormatError("KeyError")
              ELSE Cons(d.map[KeyedTokens[t]], PercentDict(Tail(message), d, FALSE))
         ELSE IF t = "%z"
         THEN FormatError(IF ~unused THEN "TypeError" ELSE "ValueError")
         ELSE IF t = "%%" THEN Cons("%", PercentDict(Tail(message), d, unused))
         ELSE Cons(t, PercentDict(Tail(message), d, unused))

\* _format_message that formats also when there are no arguments
_format_message_always(message, args) ==
    IF Len(args) = 1 /\ args[1].isdict THEN PercentDict(message, args[1], TRUE)
    ELSE PercentTuple(message, args)

_format_message(message, args) ==
    IF Len(args) = 1 /\ args[1].isdict THEN PercentDict(message, args[1], TRUE)
    ELSE IF Len(args) > 0 THEN PercentTuple(message, args)
    ELSE Formatted(message)

\* print >> stream, _format_message(message, args)
PrintTo(M, stream, message, args) ==
    LET r == _format_message(message, args) IN
    IF r.exc = "none"
    THEN [M EXCEPT !.printed = Append(@, [stream |-> stream, text |-> r.text])]
    ELSE [M EXCEPT !.outcome = r.exc]

ConsoleOutputWriter_out(M, message, args) ==
    PrintTo(M, "stdout", message, args)

ConsoleOutputWriter_err(M, message, args) ==
    PrintTo(M, "stderr", message, args)

\* a Nagios writer that inherits _out from the console writer
NagiosOutputWriter_out_inherited(M, message, args) ==
    PrintTo(M, "stdout", message, args)

NagiosOutputWriter_out(M, message, args) == M

NagiosOutputWriter_err(M, message, args) == M

\* self._out / self._err, resolved on the class of self, the active writer
_out(M, message, args) ==
    IF M._writer.cls = "NagiosOutputWriter"
    THEN NagiosOutputWriter_out(M, message, args)
    ELSE ConsoleOutputWriter_out(M, message, args)

_err(M, message, args) ==
    IF M._writer.cls = "NagiosOutputWriter"
    THEN NagiosOutputWriter_err(M, message, args)
    ELSE ConsoleOutputWriter_err(M, message, args)

----
\* ConsoleOutputWriter: the severity methods (self is the active writer)

\* debug that prints whatever the debug option is
ConsoleOutputWriter_debug_always(M, message, args) ==
    _err(M, <<"DEBUG: ">> \o message, args)

ConsoleOutputWriter_debug(M, message, args) ==
    IF M._writer._debug
    THEN _err(M, <<"DEBUG: ">> \o message, args)
    ELSE M

ConsoleOutputWriter_info(M, message, args) ==
    IF ~M._writer._quiet
    THEN _out(M, message, args)
    ELSE M

ConsoleOutputWriter_warning(M, message, args) ==
    _err(M, <<"WARNING: ">> \o message, args)

ConsoleOutputWriter_error(M, message, args) ==
    _err(M, <<"ERROR: ">> \o message, args)

ConsoleOutputWriter_exception(M, message, args) ==
    _err(M, <<"EXCEPTION: ">> \o message, args)

\* the hook does nothing
ConsoleOutputWriter_error_occurred(M) == M

\* _writer.error_occurred()
WriterErrorOccurred(M) ==
    IF ~HasMethods(M._writer) THEN Raise(M, "AttributeError")
    ELSE ConsoleOutputWriter_error_occurred(Invoke(M, "error_occurred"))

\* getattr(_writer, level)(message, *args)
LevelMethod(M, level, message, args) ==
    IF ~HasMethods(M._writer) THEN Raise(M, "AttributeError")
    ELSE LET M1 == Invoke(M, level)
         IN CASE level = "debug" -> ConsoleOutputWriter_debug(M1, message, args)
              [] level = "info" -> ConsoleOutputWriter_info(M1, message, args)
              [] level = "warning" -> ConsoleOutputWriter_warning(M1, message, args)
              [] level = "error" -> ConsoleOutputWriter_error(M1, message, args)
              [] level = "exception" ->
                    ConsoleOutputWriter_exception(M1, message, args)

----
\* ConsoleOutputWriter: the commands

ConsoleOutputWriter_result_backup(M) == M

CheckResult(server_name, check, status, hint) ==
    [server_name |-> server_name, check |-> check, status |-> status,
     hint |-> hint]

\* _record_check that records the check without touching the error state
_record_check_silent(M, server_name, check, status, hint) ==
    [M EXCEPT !._writer.result_check_list =
        Append(@, CheckResult(server_name, check, status, hint))]

_record_check(M, server_name, check, status, hint) ==
    LET M1 == [M EXCEPT !._writer.result_check_list =
                   Append(@, CheckResult(server_name, check, status, hint))]
    IN IF ~status THEN [M1 EXCEPT !.error_occurred = TRUE] ELSE M1

ConsoleOutputWriter_init_check(M, server_name) ==
    ConsoleOutputWriter_info(M, <<"Server ", server_name, ":">>, <<>>)

ConsoleOutputWriter_result_check(M, server_name, check, status, hint) ==
    LET M1 == _record_check(M, server_name, check, status, hint)
        word == IF status THEN "OK" ELSE "FAILED"
    IN IF hint.truth
       THEN ConsoleOutputWriter_info(M1,
                <<"\t", check, ": ", word, " (", hint.str, ")">>, <<>>)
       ELSE ConsoleOutputWriter_info(M1, <<"\t", check, ": ", word>>, <<>>)

\* ConsoleOutputWriter.close does nothing
ConsoleOutputWriter_close(M) == M

\* init_list_backup that leaves the minimal flag as it is
ConsoleOutputWriter_init_list_backup_noflag(M, server_name, minimal) == M

ConsoleOutputWriter_init_list_backup(M, server_name, minimal) ==
    [M EXCEPT !._writer.minimal = minimal]

\* BackupInfo.DONE (barman.infofile)
BackupInfo_DONE == "DONE"

\* barman.utils.pretty_size for a size below 1024: "%d B" % size
pretty_size(size) == <<ToString(size), " B">>

\* ', '.join(["%s:%s" % (t.name, t.location) for t in tablespaces])
RECURSIVE JoinTablespaces(_)
JoinTablespaces(tablespaces) ==
    IF Len(tablespaces) = 0 THEN <<>>
    ELSE <<Head(tablespaces).name, ":", Head(tablespaces).location>>
         \o (IF Len(tablespaces) > 1 THEN <<", ">> ELSE <<>>)
         \o JoinTablespaces(Tail(tablespaces))

ConsoleOutputWriter_result_list_backup(M, backup_info, backup_size, wal_size, retention_status) ==
    IF M._writer.minimal
    THEN ConsoleOutputWriter_info(M, <<backup_info.backup_id>>, <<>>)
    ELSE LET head == <<backup_info.server_name, " ", backup_info.backup_id,
                       " - ">>
             done == <<backup_info.end_time, " - Size: ">>
                     \o pretty_size(backup_size)
                     \o <<" - WAL Size: ">> \o pretty_size(wal_size)
             tablespaces ==
                 IF Len(backup_info.tablespaces) > 0
                 THEN <<" (tablespaces: ">>
                      \o JoinTablespaces(backup_info.tablespaces) \o <<")">>
                 ELSE <<>>
             retention ==
                 IF retention_status.truth
                 THEN <<" - ", retention_status.str>> ELSE <<>>
         IN ConsoleOutputWriter_info(M,
                head \o (IF backup_info.status = BackupInfo_DONE
                         THEN done \o tablespaces \o retention
                         ELSE <<backup_info.status>>),
                <<>>)

ConsoleOutputWriter_init_status(M, server_name) ==
    ConsoleOutputWriter_info(M, <<"Server ", "%s", ":">>, <<StrArg(server_name)>>)

\* str(message): a unicode string is encoded as ASCII, which fails with
\* UnicodeEncodeError when it has a character outside ASCII
Str(message) ==
    IF message.type = "unicode" /\ ~message.ascii
    THEN FormatError("UnicodeEncodeError")
    ELSE Formatted(message.text)

StatusResult(server_name, status, description, message) ==
    [server_name |-> server_name, status |-> status,
     description |-> description, message |-> message]

ConsoleOutputWriter_result_status(M, server_name, status, description, message) ==
    LET str == Str(message)
    IN IF str.exc # "none" THEN Raise(M, str.exc)
       ELSE ConsoleOutputWriter_info(
                [M EXCEPT !._writer.result_status_list =
                    Append(@, StatusResult(server_name, status, description,
                                           str.text))],
                <<"\t", "%s", ": ", "%s">>,
                <<StrArg(description.str), StrArg(str.text)>>)

ConsoleOutputWriter_init_list_server(M, server_name, minimal) ==
    [M EXCEPT !._writer.minimal = minimal]

ConsoleOutputWriter_result_list_server(M, server_name, description) ==
    IF M._writer.minimal \/ ~description.truth
    THEN ConsoleOutputWriter_info(M, <<"%s">>, <<StrArg(server_name)>>)
    ELSE ConsoleOutputWriter_info(M, <<"%s", " - ", "%s">>,
                                  <<StrArg(server_name), StrArg(description.str)>>)

ConsoleOutputWriter_init_show_server(M, server_name) ==
    ConsoleOutputWriter_info(M, <<"Server ", server_name, ":">>, <<>>)

\* one self.info(message, *args) of a handler, or the failure (exc) of the
\* expression that computes its arguments
InfoCall(message, args) == [exc |-> "none", message |-> message, args |-> args]
Fails(exc) == [exc |-> exc, message |-> <<>>, args |-> <<>>]

\* the self.info calls of a handler, in order, up to the first failure
RECURSIVE InfoEach(_, _)
InfoEach(M, calls) ==
    IF Len(calls) = 0 \/ M.outcome # "return" THEN M
    ELSE InfoEach(IF Head(calls).exc # "none" THEN Raise(M, Head(calls).exc)
                  ELSE ConsoleOutputWriter_info(M, Head(calls).message,
                                                Head(calls).args),
                  Tail(calls))

\* for status, message in server_info.items(): self.info(...)
ConsoleOutputWriter_result_show_server(M, server_name, server_info) ==
    InfoEach(M, [i \in 1..Len(server_info) |->
                    InfoCall(<<"\t", "%s", ": ", "%s">>,
                             <<StrArg(server_info[i].status),
                               StrArg(server_info[i].message)>>)])

\* the text of a sequence of tokens
RECURSIVE Join(_)
Join(tokens) ==
    IF Len(tokens) = 0 THEN "" ELSE Head(tokens) \o Join(Tail(tokens))

\* self.info(message, data[key]): data[key] fails with KeyError for a key
\* the dict does not have
ShowAs(data, message, key) ==
    IF key \in DOMAIN data
    THEN InfoCall(message, <<StrArg(data[key].str)>>)
    ELSE Fails("KeyError")

\* self.info(label + "%s", data[key])
Show(data, label, key) == ShowAs(data, <<label, "%s">>, key)

\* self.info(label + "%s", pretty_size(...)) for the sum of data[key], key
\* in keys
ShowSize(data, label, keys) ==
    IF \E i \in 1..Len(keys) : keys[i] \notin DOMAIN data THEN Fails("KeyError")
    ELSE InfoCall(<<label, "%s">>,
             <<StrArg(Join(pretty_size(
                   IF Len(keys) = 1 THEN data[keys[1]]
                   ELSE data[keys[1]] + data[keys[2]])))>>)

\* self.info(label + "%s", data.setdefault(key, 'not available') or other)
ShowNeighbour(data, label, key, other) ==
    InfoCall(<<label, "%s">>,
        <<StrArg(IF key \notin DOMAIN data THEN "not available"
                 ELSE IF data[key].truth THEN data[key].str ELSE other)>>)

\* the branch of result_show_backup for a backup that is done
ShowDone(data) ==
    <<Show(data, "  PostgreSQL Version: ", "version"),
      Show(data, "  PGDATA directory  : ", "pgdata")>>
    \o (IF "tablespaces" \notin DOMAIN data THEN <<Fails("KeyError")>>
        ELSE IF Len(data.tablespaces) > 0
        THEN <<InfoCall(<<"  Tablespaces:">>, <<>>)>>
             \o [i \in 1..Len(data.tablespaces) |->
                    InfoCall(<<"    ", "%s", ": ", "%s", " (oid: ", "%s", ")">>,
                             <<StrArg(data.tablespaces[i].name),
                               StrArg(data.tablespaces[i].location),
                               StrArg(data.tablespaces[i].oid)>>)]
        ELSE <<>>)
    \o <<InfoCall(<<"">>, <<>>),
         InfoCall(<<"  Base backup information:">>, <<>>),
         ShowSize(data, "    Disk usage      : ", <<"size", "wal_size">>),
         Show(data, "    Timeline        : ", "timeline"),
         Show(data, "    Begin WAL       : ", "begin_wal"),
         Show(data, "    End WAL         : ", "end_wal"),
         Show(data, "    WAL number      : ", "wal_num"),
         Show(data, "    Begin time      : ", "begin_time"),
         Show(data, "    End time        : ", "end_time"),
         Show(data, "    Begin Offset    : ", "begin_offset"),
         Show(data, "    End Offset      : ", "end_offset"),
         Show(data, "    Begin XLOG      : ", "begin_xlog"),
         Show(data, "    End XLOG        : ", "end_xlog"),
         InfoCall(<<"">>, <<>>),
         InfoCall(<<"  WAL information:">>, <<>>),
         Show(data, "    No of files     : ", "wal_until_next_num"),
         ShowSize(data, "    Disk usage      : ", <<"wal_until_next_size">>),
         Show(data, "    Last available  : ", "wal_last"),
         InfoCall(<<"">>, <<>>),
         InfoCall(<<"  Catalog information:">>, <<>>),
         IF "retention_policy_status" \notin DOMAIN data THEN Fails("KeyError")
         ELSE InfoCall(<<"    Retention Policy: ", "%s">>,
                  <<StrArg(IF data.retention_policy_status.truth
                           THEN data.retention_policy_status.str
                           ELSE "not enforced")>>),
         ShowNeighbour(data, "    Previous Backup : ", "previous_backup_id",
                       "- (this is the oldest base backup)"),
         ShowNeighbour(data, "    Next Backup     : ", "next_backup_id",
                       "- (this is the latest base backup)")>>

\* dict(backup_ext_info) fails with ValueError for an object that is no dict
\* (a str)
ConsoleOutputWriter_result_show_backup(M, backup_ext_info) ==
    IF ~backup_ext_info.isdict THEN Raise(M, "ValueError")
    ELSE LET data == backup_ext_info.data
             M1 == InfoEach(M,
                       <<ShowAs(data, <<"Backup ", "%s", ":">>, "backup_id"),
                         Show(data, "  Server Name       : ", "server_name"),
                         Show(data, "  Status            : ", "status")>>)
         IN IF M1.outcome # "return" THEN M1
            ELSE IF data.status.str = BackupInfo_DONE
            THEN InfoEach(M1, ShowDone(data))
            ELSE IF "error" \notin DOMAIN data THEN Raise(M1, "KeyError")
            ELSE IF data.error.truth
            THEN InfoEach(M1, <<Show(data, "  Error:            : ", "error")>>)
            ELSE M1

----
\* NagiosOutputWriter.close

\* the server names of the first n records of list (of the failed ones only
\* when failedOnly), each once, in order of first appearance
\* ServerNames that counts a server once per record
ServerNames_repeated(list, n, failedOnly) ==
    LET keep == SelectSeq(SubSeq(list, 1, n), LAMBDA r : failedOnly => ~r.status)
    IN [i \in 1..Len(keep) |-> keep[i].server_name]

RECURSIVE ServerNames(_, _, _)
ServerNames(list, n, failedOnly) ==
    IF n = 0 THEN <<>>
    ELSE LET before == ServerNames(list, n - 1, failedOnly)
             item == list[n]
         IN IF (failedOnly => ~item.status)
               /\ \A i \in 1..Len(before) : before[i] # item.server_name
            THEN Append(before, item.server_name)
            ELSE before

\* NagiosOutputWriter.close that also reports CRITICAL when an error message
\* was emitted
NagiosOutputWriter_close_onerror(M) ==
    IF M.error_occurred
    THEN [M EXCEPT
            !.printed = Append(@, [stream |-> "stdout", text |->
                <<"BARMAN CRITICAL - ", "0", " server out of ", "0",
                  " has issues">>]),
            !.error_exit_code = 2]
    ELSE [M EXCEPT
            !.printed = Append(@, [stream |-> "stdout", text |->
                <<"BARMAN OK - Ready to serve the Espresso backup">>])]

\* NagiosOutputWriter.close that sets the exit code both ways: 2 with
\* issues, back to 1 without
NagiosOutputWriter_close_reset(M) ==
    LET list == M._writer.result_check_list
        servers == ServerNames(list, Len(list), FALSE)
        issues == ServerNames(list, Len(list), TRUE)
    IN IF Len(issues) > 0
       THEN [M EXCEPT
               !.printed = Append(@, [stream |-> "stdout", text |->
                   <<"BARMAN CRITICAL - ", ToString(Len(issues)),
                     " server out of ", ToString(Len(servers)),
                     " has issues">>]),
               !.error_exit_code = 2]
       ELSE [M EXCEPT
               !.printed = Append(@, [stream |-> "stdout", text |->
                   <<"BARMAN OK - Ready to serve the Espresso backup">>]),
               !.error_exit_code = 1]

NagiosOutputWriter_close(M) ==
    LET list == M._writer.result_check_list
        servers == ServerNames(list, Len(list), FALSE)
        issues == ServerNames(list, Len(list), TRUE)
    IN IF Len(issues) > 0
       THEN [M EXCEPT
               !.printed = Append(@, [stream |-> "stdout", text |->
                   <<"BARMAN CRITICAL - ", ToString(Len(issues)),
                     " server out of ", ToString(Len(servers)),
                     " has issues">>]),
               !.error_exit_code = 2]
       ELSE [M EXCEPT
               !.printed = Append(@, [stream |-> "stdout", text |->
                   <<"BARMAN OK - Ready to serve the Espresso backup">>])]

\* _writer.close(), resolved on the class of the active writer
WriterClose(M) ==
    LET M1 == [Invoke(M, "close") EXCEPT !._writer.closes = @ + 1]
    IN IF ~HasMethods(M._writer) THEN Raise(M, "AttributeError")
       ELSE IF M._writer.cls = "NagiosOutputWriter"
       THEN NagiosOutputWriter_close(M1)
       ELSE ConsoleOutputWriter_close(M1)

----
\* The facade

\* level.upper() for every level
LogLevel_upper(level) ==
    CASE level = "debug" -> "DEBUG"
      [] level = "info" -> "INFO"
      [] level = "warning" -> "WARNING"
      [] level = "error" -> "ERROR"
      [] level = "exception" -> "EXCEPTION"

\* level.upper(), with 'exception' logged as 'error'
LogLevel(level) ==
    CASE level = "debug" -> "DEBUG"
      [] level = "info" -> "INFO"
      [] level = "warning" -> "WARNING"
      [] level = "error" -> "ERROR"
      [] level = "exception" -> "ERROR"

\* the logging step of _put: the logger is that of the module of the frame
\* two levels up, the caller of the facade function; mod.__name__ fails with
\* AttributeError when that frame belongs to no module
logger_log(M, level, message, args) ==
    LET mod == M.caller
    IN IF mod = None THEN Raise(M, "AttributeError")
       ELSE Step([M EXCEPT !.logged = Append(@,
                    [name |-> mod.str, level |-> LogLevel(level),
                     message |-> message, args |-> args,
                     exc_info |-> (level = "exception")])],
                 "logger.log")

\* _put that looks at the leftover options after it has sent the message
_put_late(M, level, message, args, kwargs) ==
    LET log == Pop(kwargs, "log", TRUE)
        is_error == Pop(kwargs, "is_error", FALSE)
        rest == Without(Without(kwargs, "log"), "is_error")
        M1 == IF is_error
              THEN WriterErrorOccurred(Step([M EXCEPT !.error_occurred = TRUE],
                                            "error_occurred = True"))
              ELSE M
        M2 == IF M1.outcome # "return" THEN M1
              ELSE LevelMethod(M1, level, message, args)
    IN IF M2.outcome # "return" THEN M2
       ELSE IF DOMAIN rest # {} THEN Raise(M2, "TypeError")
       ELSE IF log
       THEN logger_log(M2, level, message, args)
       ELSE M2

\* _put that calls the error_occurred() hook after the rendering method
_put_hook_late(M, level, message, args, kwargs) ==
    LET log == Pop(kwargs, "log", TRUE)
        is_error == Pop(kwargs, "is_error", FALSE)
        rest == Without(Without(kwargs, "log"), "is_error")
        M1 == IF is_error
              THEN Step([M EXCEPT !.error_occurred = TRUE], "error_occurred = True")
              ELSE M
        M2 == LevelMethod(M1, level, message, args)
        M3 == IF is_error /\ M2.outcome = "return"
              THEN WriterErrorOccurred(M2)
              ELSE M2
    IN IF DOMAIN rest # {} THEN Raise(M, "TypeError")
       ELSE IF M3.outcome # "return" THEN M3
       ELSE IF log
       THEN logger_log(M3, level, message, args)
       ELSE M3

_put(M, level, message, args, kwargs) ==
    LET log == Pop(kwargs, "log", TRUE)
        is_error == Pop(kwargs, "is_error", FALSE)
        rest == Without(Without(kwargs, "log"), "is_error")
        M1 == IF is_error
              THEN WriterErrorOccurred(Step([M EXCEPT !.error_occurred = TRUE],
                                            "error_occurred = True"))
              ELSE M
        M2 == IF M1.outcome # "return" THEN M1
              ELSE LevelMethod(M1, level, message, args)
    IN IF DOMAIN rest # {} THEN Raise(M, "TypeError")
       ELSE IF M2.outcome # "return" THEN M2
       ELSE IF log
       THEN logger_log(M2, level, message, args)
       ELSE M2

debug(M, message, args, kwargs) == _put(M, "debug", message, args, kwargs)

info(M, message, args, kwargs) == _put(M, "info", message, args, kwargs)

warning(M, message, args, kwargs) == _put(M, "warning", message, args, kwargs)

\* error() that sends the message without flagging it as an error
error_unflagged(M, message, args, kwargs) ==
    _put(M, "error", message, args, Without(kwargs, "ignore"))

\* error() that flags the message as an error whatever ignore says
error_always(M, message, args, kwargs) ==
    _put(M, "error", message, args,
         SetDefault(Without(kwargs, "ignore"), "is_error", TRUE))

error(M, message, args, kwargs) ==
    LET ignore == Pop(kwargs, "ignore", FALSE)
        kw == Without(kwargs, "ignore")
    IN _put(M, "error", message, args,
            IF ~ignore THEN SetDefault(kw, "is_error", TRUE) ELSE kw)

\* exception() that raises before it sends the message
exception_raise_first(M, message, args, kwargs) ==
    LET ignore == Pop(kwargs, "ignore", FALSE)
        raise_exception == Pop(kwargs, "raise_exception", "None")
        kw == Without(Without(kwargs, "ignore"), "raise_exception")
    IN IF raise_exception \in {"None", "False"}
       THEN _put(M, "exception", message, args,
                 IF ~ignore THEN SetDefault(kw, "is_error", TRUE) ELSE kw)
       ELSE IF raise_exception = "callable"
       THEN Raise(M, "raise_exception(message)")
       ELSE IF raise_exception = "error"
       THEN Raise(M, "raise_exception")
       ELSE IF M.exc_info # "None" THEN Raise(M, M.exc_info)
       ELSE Raise(M, "TypeError")

\* raise_exception is "None" or "False", a callable ("callable"), an
\* exception object ("error"), or another true value ("True").  The
\* callable's result is raised as "raise_exception(message)", the object as
\* "raise_exception".  A bare raise raises the exception being handled
\* again; when none is handled there is nothing to raise again and the
\* statement fails with a TypeError
exception(M, message, args, kwargs) ==
    LET ignore == Pop(kwargs, "ignore", FALSE)
        raise_exception == Pop(kwargs, "raise_exception", "None")
        kw == Without(Without(kwargs, "ignore"), "raise_exception")
        M1 == _put(M, "exception", message, args,
                   IF ~ignore THEN SetDefault(kw, "is_error", TRUE) ELSE kw)
    IN IF M1.outcome # "return" \/ raise_exception \in {"None", "False"}
       THEN M1
       ELSE IF raise_exception = "callable"
       THEN Raise(M1, "raise_exception(message)")
       ELSE IF raise_exception = "error"
       THEN Raise(M1, "raise_exception")
       ELSE IF M1.exc_info # "None" THEN Raise(M1, M1.exc_info)
       ELSE Raise(M1, "TypeError")

close(M) == WriterClose(M)

\* close_and_exit that picks the exit status before it closes the writer
close_and_exit_early(M) ==
    LET M1 == close(M)
    IN IF M1.outcome # "return" THEN M1
       ELSE [M1 EXCEPT !.pc = "exited",
                       !.outcome = "SystemExit",
                       !.exit_status = IF M.error_occurred
                                       THEN M.error_exit_code ELSE 0]

close_and_exit(M) ==
    LET M1 == close(M)
    IN IF M1.outcome # "return" THEN M1
       ELSE [M1 EXCEPT !.pc = "exited",
                       !.outcome = "SystemExit",
                       !.exit_status = IF M1.error_occurred
                                       THEN M1.error_exit_code ELSE 0]

\* "%s_%s" % (prefix, name)
MethodName(prefix, name) ==
    CASE prefix = "init" /\ name = "check" -> "init_check"
      [] prefix = "init" /\ name = "backup" -> "init_backup"
      [] prefix = "init" /\ name = "nosuchcommand" -> "init_nosuchcommand"
      [] prefix = "result" /\ name = "check" -> "result_check"
      [] prefix = "result" /\ name = "backup" -> "result_backup"
      [] prefix = "result" /\ name = "check_list" -> "result_check_list"
      [] prefix = "init" /\ name = "status" -> "init_status"
      [] prefix = "result" /\ name = "status" -> "result_status"
      [] prefix = "init" /\ name = "list_backup" -> "init_list_backup"
      [] prefix = "result" /\ name = "list_backup" -> "result_list_backup"
      [] prefix = "init" /\ name = "list_server" -> "init_list_server"
      [] prefix = "result" /\ name = "list_server" -> "result_list_server"
      [] prefix = "result" /\ name = "nosuchcommand" -> "result_nosuchcommand"
      [] prefix = "init" /\ name = "show_server" -> "init_show_server"
      [] prefix = "result" /\ name = "show_server" -> "result_show_server"
      [] prefix = "result" /\ name = "show_backup" -> "result_show_backup"

\* handler(*args, **kwargs) for the handlers of the modelled commands
Handler(M, method_name, a) ==
    CASE method_name = "init_check" ->
            ConsoleOutputWriter_init_check(M, a.server_name)
      [] method_name = "result_check" ->
            ConsoleOutputWriter_result_check(M, a.server_name, a.check,
                                             a.status, a.hint)
      [] method_name = "result_backup" ->
            ConsoleOutputWriter_result_backup(M)
      [] method_name = "init_status" ->
            ConsoleOutputWriter_init_status(M, a.server_name)
      [] method_name = "result_status" ->
            ConsoleOutputWriter_result_status(M, a.server_name, a.status_code,
                                              a.description, a.message)
      [] method_name = "init_list_backup" ->
            ConsoleOutputWriter_init_list_backup(M, a.server_name,
                Pop(a.kw, "minimal", FALSE))
      [] method_name = "result_list_backup" ->
            ConsoleOutputWriter_result_list_backup(M, a.backup_info,
                a.backup_size, a.wal_size, a.retention_status)
      [] method_name = "init_list_server" ->
            ConsoleOutputWriter_init_list_server(M, a.server_name,
                Pop(a.kw, "minimal", FALSE))
      [] method_name = "result_list_server" ->
            ConsoleOutputWriter_result_list_server(M, a.server_name,
                                                   a.description)
      [] method_name = "init_show_server" ->
            ConsoleOutputWriter_init_show_server(M, a.server_name)
      [] method_name = "result_show_server" ->
            ConsoleOutputWriter_result_show_server(M, a.server_name,
                                                   a.server_info)
      [] method_name = "result_show_backup" ->
            ConsoleOutputWriter_result_show_backup(M, a.backup_ext_info)

\* _dispatch(_writer, prefix, name, ...): result_check_list is an attribute
\* of the writer, but a list, not a callable; an object that is no writer
\* has no attribute of these names
_dispatch(M, prefix, name, a) ==
    LET method_name == MethodName(prefix, name)
    IN IF HasMethods(M._writer) /\ method_name \in Methods
       THEN Handler(Invoke(M, method_name), method_name, a)
       ELSE Raise(M, "ValueError")

\* the except ValueError branch reporting with ignore=True
Unsupported_ignored(M, command) ==
    LET M1 == exception([M EXCEPT !.outcome = "return",
                                  !.caller = StrValue("barman.output")],
                  <<"The ", "%s", " writer does not support the \"", "%s",
                    "\" command">>,
                  <<StrArg(M._writer.cls), StrArg(command)>>,
                  [k \in {"ignore"} |-> TRUE])
    IN IF M1.outcome # "return" THEN M1 ELSE close_and_exit(M1)

\* the except ValueError branch of init and result; the exception() call is
\* made by this module, barman.output
Unsupported(M, command) ==
    LET M1 == exception([M EXCEPT !.outcome = "return",
                                  !.caller = StrValue("barman.output")],
                  <<"The ", "%s", " writer does not support the \"", "%s",
                    "\" command">>,
                  <<StrArg(M._writer.cls), StrArg(command)>>,
                  NoKwargs)
    IN IF M1.outcome # "return" THEN M1 ELSE close_and_exit(M1)

\* the exceptions an except ValueError clause catches: ValueError and its
\* subclasses
ValueErrors == {"ValueError", "UnicodeEncodeError", "UnicodeDecodeError"}

init(M, command, a) ==
    LET M1 == _dispatch(M, "init", command, a)
    IN IF M1.outcome \in ValueErrors THEN Unsupported(M1, command) ELSE M1

result(M, command, a) ==
    LET M1 == _dispatch(M, "result", command, a)
    IN IF M1.outcome \in ValueErrors THEN Unsupported(M1, command) ELSE M1

\* new_writer is a registry name, with the constructor's arguments f, or a
\* writer instance obj the caller has constructed
\* a name is a str object: as a writer it has none of the attributes
WriterName(name, f) ==
    [isname |-> TRUE, name |-> name, f |-> f,
     obj |-> NewWriter(0, "str", FALSE, FALSE)]
WriterObject(obj) ==
    [isname |-> FALSE, name |-> "", f |-> <<FALSE, FALSE>>, obj |-> obj]

\* set_output_writer that installs the new writer before it closes _writer
set_output_writer_swapped(M, new_writer) ==
    IF new_writer.isname /\ new_writer.name \in DOMAIN AVAILABLE_WRITERS
    THEN LET obj == NewWriter(M.created + 1, AVAILABLE_WRITERS[new_writer.name],
                              new_writer.f[1], new_writer.f[2])
         IN WriterClose(Invoke([M EXCEPT !._writer = obj, !.created = @ + 1],
                               "__init__"))
    ELSE WriterClose([M EXCEPT !._writer = new_writer.obj])

\* set_output_writer with the lists shared by all the writers, as a class
\* attribute would be
set_output_writer_shared(M, new_writer) ==
    LET M1 == WriterClose(M)
        list == M._writer.result_check_list
    IN IF M1.outcome # "return" THEN M1
       ELSE IF new_writer.isname /\ new_writer.name \in DOMAIN AVAILABLE_WRITERS
       THEN LET obj == NewWriter(M1.created + 1, AVAILABLE_WRITERS[new_writer.name],
                                 new_writer.f[1], new_writer.f[2])
            IN Invoke([M1 EXCEPT !._writer =
                                     [obj EXCEPT !.result_check_list = list],
                                 !.created = @ + 1], "__init__")
       ELSE [M1 EXCEPT !._writer =
                [new_writer.obj EXCEPT !.result_check_list = list]]

set_output_writer(M, new_writer) ==
    LET M1 == WriterClose(M)
    IN IF M1.outcome # "return" THEN M1
       ELSE IF new_writer.isname /\ new_writer.name \in DOMAIN AVAILABLE_WRITERS
       THEN LET obj == NewWriter(M1.created + 1, AVAILABLE_WRITERS[new_writer.name],
                                 new_writer.f[1], new_writer.f[2])
            IN Invoke([M1 EXCEPT !._writer = obj, !.created = @ + 1], "__init__")
       ELSE [M1 EXCEPT !._writer = new_writer.obj]

----
\* The state machine

\* the module as loaded: _writer = AVAILABLE_WRITERS[DEFAULT_WRITER]()
Init ==
    /\ error_occurred = FALSE
    /\ error_exit_code = 1
    /\ _writer = NewWriter(1, AVAILABLE_WRITERS[DEFAULT_WRITER], FALSE, FALSE)
    /\ created = 1
    /\ pc = "ready"
    /\ exit_status = 0
    /\ call = [op |-> "load", level |-> "", command |-> "", kwargs |-> NoKwargs,
               a |-> <<>>,
               pre |-> [error_occurred |-> FALSE, error_exit_code |-> 1,
                        _writer |-> NewWriter(1, AVAILABLE_WRITERS[DEFAULT_WRITER],
                                              FALSE, FALSE)]]
    /\ events = <<>>
    /\ printed = <<>>
    /\ logged = <<>>
    /\ outcome = "return"
    /\ steps = <<>>
    /\ returned = NotCalled

\* the globals at the start of a facade call; exc_info is the exception the
\* caller is handling (sys.exc_info()), "None" when it handles none; caller
\* is the module of the frame that calls the facade
Machine ==
    [error_occurred |-> error_occurred, error_exit_code |-> error_exit_code,
     _writer |-> _writer, created |-> created, pc |-> "done",
     exit_status |-> exit_status, events |-> <<>>, printed |-> <<>>,
     logged |-> <<>>, outcome |-> "return", steps |-> <<>>,
     exc_info |-> "None", caller |-> StrValue("barman.cli")]

\* the state after a facade call that ended in M
Becomes(M, c) ==
    /\ error_occurred' = M.error_occurred
    /\ error_exit_code' = M.error_exit_code
    /\ _writer' = M._writer
    /\ created' = M.created
    /\ pc' = M.pc
    /\ exit_status' = M.exit_status
    /\ events' = M.events
    /\ printed' = M.printed
    /\ logged' = M.logged
    /\ outcome' = M.outcome
    /\ steps' = M.steps
    /\ call' = c
    /\ UNCHANGED returned

\* a facade call, its arguments, and the globals as the call found them
Call(op, level, command, kwargs, a) ==
    [op |-> op, level |-> level, command |-> command, kwargs |-> kwargs,
     a |-> a,
     pre |-> [error_occurred |-> error_occurred,
              error_exit_code |-> error_exit_code, _writer |-> _writer]]

CanClose == _writer.closes < MaxClose

\* a severity call made from the module caller while the caller handles the
\* exception handled (outside an except block handled is "None")
Emit(level, message, args, kwargs, handled, caller) ==
    /\ pc = "ready"
    /\ LET M == [Machine EXCEPT !.exc_info = handled, !.caller = caller]
       IN Becomes(CASE level = "debug" -> debug(M, message, args, kwargs)
                    [] level = "info" -> info(M, message, args, kwargs)
                    [] level = "warning" -> warning(M, message, args, kwargs)
                    [] level = "error" -> error(M, message, args, kwargs)
                    [] level = "exception" -> exception(M, message, args, kwargs),
                  Call("emit", level, "", kwargs,
                       [message |-> message, args |-> args, handled |-> handled,
                        caller |-> caller]))

\* the arguments of a command the model gives one value only
DefaultArgs ==
    [server_name |-> "pg1", check |-> "ssh", status |-> TRUE, hint |-> NoHint,
     kw |-> NoKwargs, backup_info |-> FailedBackup, backup_size |-> 512,
     wal_size |-> 16, retention_status |-> None, description |-> None,
     status_code |-> "", message |-> [type |-> "str", text |-> "ok",
                                      ascii |-> TRUE],
     backup_ext_info |-> NotADict, server_info |-> <<>>]

\* a failed check comes with a hint; a passed one with none (pg1) or with an
\* empty one (pg2)
CheckArgs ==
    {a \in {[DefaultArgs EXCEPT !.server_name = s, !.check = c, !.status = st,
                                !.hint = h] :
               s \in Servers, c \in Checks, st \in BOOLEAN, h \in Hints} :
        /\ a.status <=> ~a.hint.truth
        /\ a.status => (a.hint = None <=> a.server_name = "pg1")}

\* the arguments a command reads; the arguments of the others are fixed
ArgsOf(prefix, command) ==
    CASE command = "check" /\ prefix = "result" -> CheckArgs
      [] command = "check" /\ prefix = "init" ->
            {[DefaultArgs EXCEPT !.server_name = s] : s \in Servers}
      [] command = "status" /\ prefix = "result" ->
            {[DefaultArgs EXCEPT !.status_code = "pg_version",
                                 !.description = StrValue("PostgreSQL version"),
                                 !.message = m] : m \in StatusMessages}
      [] command \in {"list_backup", "list_server"} /\ prefix = "init" ->
            {[DefaultArgs EXCEPT !.kw = k] : k \in MinimalKwargs}
      [] command = "list_backup" /\ prefix = "result" ->
            {a \in {[DefaultArgs EXCEPT !.backup_info = b,
                                        !.retention_status = r] :
                       b \in BackupInfos, r \in RetentionStatuses} :
                \/ a.backup_info.status = "DONE"
                      /\ (Len(a.backup_info.tablespaces) > 0
                             <=> a.retention_status.truth)
                \/ a.backup_info.status # "DONE" /\ a.retention_status = None}
      [] command = "show_backup" /\ prefix = "result" ->
            {[DefaultArgs EXCEPT !.backup_ext_info = b] : b \in BackupExtInfos}
      [] command = "show_server" /\ prefix = "result" ->
            {[DefaultArgs EXCEPT !.server_info = i] : i \in ServerInfos}
      [] command = "list_server" /\ prefix = "result" ->
            {[DefaultArgs EXCEPT !.description = d] : d \in Descriptions}
      [] OTHER -> {DefaultArgs}

\* the severity calls of the model: the options are varied on the plain
\* message, an exception is being handled only where the call reads it, and
\* a caller in no module sends the plain message, outside an except block
EmitCalls ==
    {c \in [level : Levels, message : Templates, args : EmitArgs,
            kwargs : Kwargs \cup RaiseKwargs, handled : Handled,
            caller : Callers] :
        /\ c.kwargs \in KwargsOf(c.level)
        /\ (c.message \notin Messages \/ c.args # <<>>) => c.kwargs = NoKwargs
        /\ c.handled # "None" =>
              /\ c.message \in Messages /\ c.args = <<>>
              /\ Pop(c.kwargs, "raise_exception", "None") = "True"
        /\ c.caller = None =>
              /\ c.message \in Messages /\ c.args = <<>>
              /\ c.handled = "None"
              /\ DOMAIN c.kwargs \subseteq {"log", "raise_exception"}}

InitCalls ==
    UNION {{[command |-> command, a |-> a] : a \in ArgsOf("init", command)} :
           command \in InitCommands}

ResultCalls ==
    UNION {{[command |-> command, a |-> a] : a \in ArgsOf("result", command)} :
           command \in ResultCommands}

\* the records (CheckResult and StatusResult) the active writer holds
Records == Len(_writer.result_check_list) + Len(_writer.result_status_list)

DoInit(command, a) ==
    /\ pc = "ready"
    /\ command \in {"backup", "nosuchcommand"} => CanClose
    /\ Becomes(init(Machine, command, a), Call("init", "", command, NoKwargs, a))

DoResult(command, a) ==
    /\ pc = "ready"
    /\ command \in {"check", "status"} => Records < MaxChecks
    /\ command \in {"check_list", "nosuchcommand"} => CanClose
    /\ (command = "status" /\ ~a.message.ascii) => CanClose
    /\ (command = "show_backup" /\ ~a.backup_ext_info.isdict) => CanClose
    /\ Becomes(result(Machine, command, a), Call("result", "", command, NoKwargs, a))

DoClose ==
    /\ pc = "ready"
    /\ CanClose
    /\ Becomes(close(Machine), Call("close", "", "", NoKwargs, <<>>))

DoCloseAndExit ==
    /\ pc = "ready"
    /\ CanClose
    /\ Becomes(close_and_exit(Machine),
               Call("close_and_exit", "", "", NoKwargs, <<>>))

\* set_output_writer('console', debug=.., quiet=..) and
\* set_output_writer('nagios')
SetByName(name, f) ==
    /\ pc = "ready"
    /\ CanClose
    /\ created < MaxWriters
    /\ Becomes(set_output_writer(Machine, WriterName(name, f)),
               Call("set_output_writer", "", name, NoKwargs,
                    WriterName(name, f)))

\* set_output_writer(NagiosOutputWriter()): the caller constructs the
\* instance, then the facade is called with it
SetInstance(cls, f) ==
    /\ pc = "ready"
    /\ CanClose
    /\ created < MaxWriters
    /\ Becomes(set_output_writer([Machine EXCEPT !.created = @ + 1],
                   WriterObject(NewWriter(created + 1, cls, f[1], f[2]))),
               Call("set_output_writer", "", cls, NoKwargs,
                    WriterObject(NewWriter(created + 1, cls, f[1], f[2]))))

\* the command layer goes on to its next call
Proceed ==
    /\ pc = "done"
    /\ pc' = "ready"
    /\ call' = Call("none", "", "", NoKwargs, <<>>)
    /\ events' = <<>>
    /\ printed' = <<>>
    /\ logged' = <<>>
    /\ outcome' = "return"
    /\ steps' = <<>>
    /\ UNCHANGED <<error_occurred, error_exit_code, _writer, created, exit_status,
                   returned>>

Next ==
    \/ \E c \in EmitCalls :
          Emit(c.level, c.message, c.args, c.kwargs, c.handled, c.caller)
    \/ \E c \in InitCalls : DoInit(c.command, c.a)
    \/ \E c \in ResultCalls : DoResult(c.command, c.a)
    \/ DoClose
    \/ DoCloseAndExit
    \/ \E f \in Flags : SetByName("console", f)
    \/ SetByName("nagios", <<FALSE, FALSE>>)
    \/ \E cls \in InstanceClasses : SetInstance(cls, <<FALSE, FALSE>>)
    \/ Proceed

Spec == Init /\ [][Next]_vars

----
\* _format_message on its own

Tokens == {"%s", "%(a)s", "%(b)s", "%%", "%z", "text"}
FormatTemplates == UNION {[1..n -> Tokens] : n \in 0..MaxLen}
\* argument lists: empty, one or two strings, one dict (with the key a, or
\* empty), a dict followed by a string
FormatArgs ==
    {<<>>,
     <<StrArg("x")>>,
     <<StrArg("x"), StrArg("y")>>,
     <<DictArg([k \in {"a"} |-> "1"])>>,
     <<DictArg(NoMap)>>,
     <<DictArg([k \in {"a"} |-> "1"]), StrArg("x")>>}

\* the module as loaded, and a call _format_message(message, args) to make
FormatInit ==
    /\ error_occurred = FALSE
    /\ error_exit_code = 1
    /\ _writer = NewWriter(1, AVAILABLE_WRITERS[DEFAULT_WRITER], FALSE, FALSE)
    /\ created = 1
    /\ pc = "ready"
    /\ exit_status = 0
    /\ \E message \in FormatTemplates, args \in FormatArgs :
          call = [op |-> "_format_message", message |-> message, args |-> args]
    /\ events = <<>>
    /\ printed = <<>>
    /\ logged = <<>>
    /\ outcome = "return"
    /\ steps = <<>>
    /\ returned = NotCalled

Format ==
    /\ pc = "ready"
    /\ pc' = "done"
    /\ returned' = _format_message(call.message, call.args)
    /\ UNCHANGED <<error_occurred, error_exit_code, _writer, created,
                   exit_status, call, events, printed, logged, outcome, steps>>

FormatNext == Format

FormatSpec == FormatInit /\ [][FormatNext]_vars

----
\* Properties

\* the call found a writer object active: an instance of one of the writer
\* classes.  After set_output_writer(x) for an x that is neither a registered
\* name nor a writer (the name "nagios") the active writer is the str x,
\* which has no writer method: a call that gets to a method of the active
\* writer ends there with an AttributeError
OnWriter == HasMethods(call.pre._writer)
EmitReturned ==
    call.op = "emit" /\ outcome = "return"
ErrorEmitted ==
    /\ EmitReturned
    /\ call.level \in {"error", "exception"}
Ignore == Pop(call.kwargs, "ignore", FALSE)

\* C1: global error state is monotonic.  An error() or exception() call made
\* without ignore=True leaves error_occurred true, and no step of the run
\* (debug, info, warning, error, exception, init, result, close,
\* set_output_writer, or the caller going on) takes it from true to false.
C1_ErrorStateMonotonic ==
    [][/\ error_occurred => error_occurred'
       /\ (ErrorEmitted /\ ~Ignore)' => error_occurred']_vars

\* C1 witness: an info message sent after an error was recorded finds the
\* error state set and leaves it set
C1_Witness ==
    /\ EmitReturned /\ call.level = "info"
    /\ call.pre.error_occurred /\ error_occurred

\* C2: error(..., ignore=True) and exception(..., ignore=True) leave the
\* global error state as it was and do not call the writer's error_occurred()
\* hook; the message still goes to the writer's error / exception method
\* (the only writer method invoked), which on the console writer prints it.
C2_IgnoreLeavesErrorState ==
    (ErrorEmitted /\ Ignore) =>
        /\ error_occurred = call.pre.error_occurred
        /\ events = <<[w |-> _writer.id, m |-> call.level]>>
        /\ _writer.cls = "ConsoleOutputWriter" =>
              /\ Len(printed) = 1
              /\ printed[1].stream = "stderr"
              /\ printed[1].text =
                    <<IF call.level = "error" THEN "ERROR: " ELSE "EXCEPTION: ",
                      "msg">>

\* C2 witness: error(msg, ignore=True) on the console writer returned and no
\* error is recorded
C2_Witness ==
    /\ ErrorEmitted /\ Ignore /\ call.level = "error"
    /\ _writer.cls = "ConsoleOutputWriter"
    /\ ~error_occurred

ResultCheck == call.op = "result" /\ call.command = "check" /\ OnWriter

\* C3: on the console writer and on the Nagios writer, result("check",
\* server, check, status, hint) appends exactly one CheckResult with these
\* four values to the active writer's list; a false status sets the global
\* error state, a true status leaves it as it was.
C3_ResultCheckRecords ==
    ResultCheck =>
        /\ outcome = "return"
        /\ _writer.id = call.pre._writer.id
        /\ _writer.result_check_list =
              Append(call.pre._writer.result_check_list,
                     [server_name |-> call.a.server_name, check |-> call.a.check,
                      status |-> call.a.status, hint |-> call.a.hint])
        /\ ~call.a.status => error_occurred
        /\ call.a.status => error_occurred = call.pre.error_occurred

\* C3 witness: a failed check with a hint, recorded second in the list of a
\* Nagios writer, set the error state that was clear before
C3_Witness ==
    /\ ResultCheck
    /\ _writer.cls = "NagiosOutputWriter"
    /\ ~call.a.status /\ call.a.hint = StrValue("hint")
    /\ Len(_writer.result_check_list) = 2
    /\ ~call.pre.error_occurred /\ error_occurred

SetWriter == call.op = "set_output_writer"

\* C4: set_output_writer closes the writer that was active exactly once, as
\* the first thing it does: before the new writer is active and before any
\* method of the new writer is invoked.  Every other facade call invokes
\* methods of the active writer only, so after the replacement nothing is
\* routed to the old writer.  (When the object that was active is no writer,
\* its close cannot be called: the call fails and installs nothing.)
C4_OldWriterClosedFirst ==
    /\ (SetWriter /\ ~OnWriter) =>
          /\ outcome = "AttributeError"
          /\ _writer = call.pre._writer /\ events = <<>>
    /\ (SetWriter /\ OnWriter) =>
          /\ outcome = "return"
          /\ _writer.id # call.pre._writer.id
          /\ Len(events) >= 1
          /\ events[1] = [w |-> call.pre._writer.id, m |-> "close"]
          /\ \A i \in 2..Len(events) : events[i].w = _writer.id
    /\ call.op \in {"emit", "init", "result", "close", "close_and_exit"} =>
          /\ _writer.id = call.pre._writer.id
          /\ \A i \in 1..Len(events) : events[i].w = _writer.id

\* C4 witness: set_output_writer('console', ...) closed the old writer, then
\* constructed the new one, which is the active writer now
C4_Witness ==
    /\ SetWriter
    /\ Len(events) = 2
    /\ events[1].m = "close" /\ events[1].w = 1
    /\ events[2].m = "__init__" /\ events[2].w = 2
    /\ _writer.id = 2

Closing == \E i \in 1..Len(events) : events[i].m = "close"
PreList == call.pre._writer.result_check_list
FailedServers ==
    {PreList[i].server_name : i \in {j \in 1..Len(PreList) : ~PreList[j].status}}
AllServers == {PreList[i].server_name : i \in 1..Len(PreList)}
NagiosClosed == Closing /\ call.pre._writer.cls = "NagiosOutputWriter"
CriticalLine(f, t) ==
    [stream |-> "stdout",
     text |-> <<"BARMAN CRITICAL - ", ToString(f), " server out of ",
                ToString(t), " has issues">>]
OkLine ==
    [stream |-> "stdout",
     text |-> <<"BARMAN OK - Ready to serve the Espresso backup">>]

\* C5: when a Nagios writer is closed and at least one of its CheckResults
\* has status false, the call prints exactly one line, "BARMAN CRITICAL - F
\* server out of T has issues", F the number of distinct servers with a
\* failed check and T the number of distinct servers in the list, and
\* error_exit_code is 2 afterwards.
C5_NagiosCritical ==
    (NagiosClosed /\ FailedServers # {}) =>
        /\ printed = <<CriticalLine(Cardinality(FailedServers),
                                    Cardinality(AllServers))>>
        /\ error_exit_code = 2

\* C5 witness: close() on a Nagios writer holding two checks of one server,
\* one of them failed, printed "1 server out of 1" and escalated the exit
\* code from 1 to 2
C5_Witness ==
    /\ call.op = "close" /\ NagiosClosed
    /\ Len(PreList) = 2
    /\ Cardinality(AllServers) = 1
    /\ PreList[1].status /\ ~PreList[2].status
    /\ printed = <<CriticalLine(1, 1)>>
    /\ call.pre.error_exit_code = 1 /\ error_exit_code = 2

\* C6: when a Nagios writer is closed by close, close_and_exit or
\* set_output_writer and none of its CheckResults has status false (an empty
\* list included), the call prints exactly "BARMAN OK - Ready to serve the
\* Espresso backup" and leaves error_exit_code and error_occurred as they
\* were, also when error messages were emitted before; close_and_exit then
\* exits with error_exit_code if an error was recorded, with 0 if not.
C6_NagiosOk ==
    (/\ NagiosClosed
     /\ call.op \in {"close", "close_and_exit", "set_output_writer"}
     /\ FailedServers = {}) =>
        /\ printed = <<OkLine>>
        /\ error_exit_code = call.pre.error_exit_code
        /\ error_occurred = call.pre.error_occurred
        /\ call.op = "close_and_exit" =>
              exit_status = IF call.pre.error_occurred
                            THEN call.pre.error_exit_code ELSE 0

\* C6 witness: close_and_exit on a Nagios writer with an empty check list,
\* after an error message: the OK line is printed and the process exits
\* with 1
C6_Witness ==
    /\ call.op = "close_and_exit" /\ NagiosClosed
    /\ PreList = <<>>
    /\ call.pre.error_occurred
    /\ printed = <<OkLine>>
    /\ pc = "exited" /\ exit_status = 1

\* C7: close_and_exit runs the active writer's close() and then terminates
\* the process; the exit status is picked after the close: error_exit_code,
\* as that close left it, if the error state is set, and 0 if not.  A Nagios
\* writer with a failed check therefore exits with 2, whatever
\* error_exit_code was before.  The process never exits without the close:
\* when the active object is no writer and has no close(), the call fails
\* and the process goes on.
C7_CloseThenExit ==
    /\ (call.op = "close_and_exit" /\ ~OnWriter) =>
          pc = "done" /\ outcome = "AttributeError"
    /\ (call.op = "close_and_exit" /\ OnWriter) =>
          /\ pc = "exited" /\ outcome = "SystemExit"
          /\ events = <<[w |-> call.pre._writer.id, m |-> "close"]>>
          /\ _writer.closes = call.pre._writer.closes + 1
          /\ exit_status = IF error_occurred THEN error_exit_code ELSE 0
          /\ (NagiosClosed /\ FailedServers # {}) => exit_status = 2
    /\ pc = "exited" =>
          /\ Len(events) >= 1
          /\ events[Len(events)] = [w |-> _writer.id, m |-> "close"]

\* C7 witness: close_and_exit found error_exit_code at 1, the close of the
\* Nagios writer escalated it, and the process exited with 2
C7_Witness ==
    /\ call.op = "close_and_exit"
    /\ call.pre.error_exit_code = 1
    /\ pc = "exited" /\ exit_status = 2

\* the commands of the model for which the writers have no callable
\* init_<command> / result_<command>, called on a writer
UnsupportedCall ==
    /\ OnWriter
    /\ \/ call.op \in {"init", "result"} /\ call.command = "nosuchcommand"
       \/ call.op = "init" /\ call.command = "backup"
       \/ call.op = "result" /\ call.command = "check_list"
\* init or result called while the active object is no writer
NoWriterCall == call.op \in {"init", "result"} /\ ~OnWriter
ClassName == call.pre._writer.cls

\* C8: init(command) or result(command) for a command the active writer has
\* no method for does not raise the lookup failure (ValueError) to the
\* caller: it sends one exception message naming the writer class and the
\* command, which sets the global error state and is logged once at ERROR
\* with the stack trace, then closes the writer and terminates the process
\* with error_exit_code, which is 1 or 2, never 0.  When the active object
\* is no writer at all (a str), every command is unsupported and the lookup
\* failure is not raised either, but the report itself fails: the error
\* state is set, then the call ends with an AttributeError, nothing printed
\* or logged and the process not terminated.
C8_UnsupportedCommandExits ==
    /\ UnsupportedCall =>
          /\ outcome = "SystemExit" /\ pc = "exited"
          /\ error_occurred
          /\ exit_status = error_exit_code /\ exit_status \in {1, 2}
          /\ events = <<[w |-> _writer.id, m |-> "error_occurred"],
                        [w |-> _writer.id, m |-> "exception"],
                        [w |-> _writer.id, m |-> "close"]>>
          /\ Len(logged) = 1
          /\ logged[1].level = "ERROR" /\ logged[1].exc_info
          /\ logged[1].args = <<StrArg(ClassName), StrArg(call.command)>>
          /\ ClassName = "ConsoleOutputWriter" =>
                printed = <<[stream |-> "stderr",
                             text |-> <<"EXCEPTION: ", "The ", ClassName,
                                        " writer does not support the \"",
                                        call.command, "\" command">>]>>
    /\ NoWriterCall =>
          /\ outcome = "AttributeError" /\ pc = "done"
          /\ error_occurred
          /\ events = <<>> /\ printed = <<>> /\ logged = <<>>

\* C8 witness: result("nosuchcommand") on the console writer, with no error
\* recorded before, exited with 1
C8_Witness ==
    /\ call.op = "result" /\ call.command = "nosuchcommand"
    /\ ClassName = "ConsoleOutputWriter"
    /\ ~call.pre.error_occurred
    /\ pc = "exited" /\ exit_status = 1

\* C9: finalization runs exactly once per run: whatever facade calls are
\* made (close, close_and_exit, set_output_writer, the unsupported-command
\* path), the close of a Nagios writer, which prints the aggregate line, is
\* never executed twice on the same writer, and it has been executed once
\* when the process exits.
C9_FinalizedOnce ==
    _writer.cls = "NagiosOutputWriter" =>
        /\ _writer.closes <= 1
        /\ pc = "exited" => _writer.closes = 1

Recognized(level) ==
    {"log"} \cup (IF level \in {"error", "exception"} THEN {"ignore"} ELSE {})
            \cup (IF level = "exception" THEN {"raise_exception"} ELSE {})
UnknownOption ==
    call.op = "emit" /\ (DOMAIN call.kwargs) \ Recognized(call.level) # {}

\* C10: a debug / info / warning / error / exception call given a named
\* option the function does not know fails with a TypeError before any
\* effect: the global error state is unchanged (also for error and exception
\* without ignore), no writer method is invoked (neither the error_occurred
\* hook nor the rendering method), nothing is printed and nothing is logged.
C10_UnknownOptionNoEffect ==
    UnknownOption =>
        /\ outcome = "TypeError" /\ pc = "done"
        /\ error_occurred = call.pre.error_occurred
        /\ error_exit_code = call.pre.error_exit_code
        /\ _writer = call.pre._writer
        /\ events = <<>> /\ printed = <<>> /\ logged = <<>>

\* C10 witness: error(msg, bogus=True), without ignore and with no error
\* recorded before, raised TypeError and recorded no error
C10_Witness ==
    /\ UnknownOption /\ call.level = "error"
    /\ "ignore" \notin DOMAIN call.kwargs
    /\ outcome = "TypeError"
    /\ ~error_occurred

FacadeCall ==
    call.op \in {"emit", "init", "result", "close", "close_and_exit",
                 "set_output_writer"}
NagiosActive == FacadeCall /\ call.pre._writer.cls = "NagiosOutputWriter"
ResultStatus ==
    call.op = "result" /\ call.command = "status" /\ outcome = "return"

\* C11: a facade call made while a Nagios writer is active (a severity call,
\* init, result, also the unsupported-command path) prints nothing, unless
\* it closes the writer, and then it prints the one aggregate line of close()
\* on standard output and nothing else.  On either class of writer
\* result("check") and result("status") append the same record to the
\* writer's list.
C11_NagiosSilent ==
    /\ NagiosActive =>
          /\ ~Closing => printed = <<>>
          /\ Closing =>
                \/ printed = <<OkLine>>
                \/ printed = <<CriticalLine(Cardinality(FailedServers),
                                            Cardinality(AllServers))>>
    /\ ResultStatus =>
          _writer.result_status_list =
              Append(call.pre._writer.result_status_list,
                     [server_name |-> call.a.server_name,
                      status |-> call.a.status_code,
                      description |-> call.a.description,
                      message |-> call.a.message.text])
    /\ ResultCheck =>
          _writer.result_check_list =
              Append(call.pre._writer.result_check_list,
                     [server_name |-> call.a.server_name, check |-> call.a.check,
                      status |-> call.a.status, hint |-> call.a.hint])

\* C11 witness: result("status") on a Nagios writer that already holds a
\* CheckResult recorded the StatusResult and printed nothing
C11_Witness ==
    /\ ResultStatus /\ NagiosActive
    /\ Len(_writer.result_check_list) = 1
    /\ Len(_writer.result_status_list) = 1
    /\ printed = <<>>

InitList ==
    /\ call.op = "init" /\ call.command \in {"list_backup", "list_server"}
    /\ OnWriter
ResultList(command) ==
    call.op = "result" /\ call.command = command /\ outcome = "return"
\* what a call that sends one info line prints: the line on standard output
\* on a console writer that is not quiet, nothing on a quiet one and on a
\* Nagios writer
InfoLine(text) ==
    IF _writer.cls = "ConsoleOutputWriter" /\ ~_writer._quiet
    THEN <<[stream |-> "stdout", text |-> text]>>
    ELSE <<>>

\* C12: the minimal flag of a writer changes only in init("list_backup") and
\* init("list_server"), which set it to the minimal argument, false when the
\* argument is left out; a writer that becomes active by set_output_writer
\* starts with its own flag.  While the flag is true, the one info line of
\* result("list_backup") is the backup id and nothing else, and that of
\* result("list_server") is the server name, also when a description is
\* given.
C12_MinimalFlag ==
    [][/\ _writer'.minimal # _writer.minimal => (InitList \/ SetWriter)'
       /\ (InitList => /\ outcome = "return"
                       /\ _writer.minimal = Pop(call.a.kw, "minimal", FALSE))'
       /\ ((ResultList("list_backup") /\ call.pre._writer.minimal) =>
              /\ printed = InfoLine(<<call.a.backup_info.backup_id>>)
              /\ _writer.minimal)'
       /\ ((ResultList("list_server") /\ call.pre._writer.minimal) =>
              /\ printed = InfoLine(<<call.a.server_name>>)
              /\ _writer.minimal)'
      ]_vars

\* C12 witness: with the flag set, result("list_backup") for a finished
\* backup with a tablespace printed the backup id alone on a console writer
C12_Witness ==
    /\ ResultList("list_backup") /\ call.pre._writer.minimal
    /\ call.a.backup_info.status = "DONE"
    /\ Len(call.a.backup_info.tablespaces) = 1
    /\ printed = <<[stream |-> "stdout", text |-> <<"B1">>]>>

\* a severity call that got as far as the writer, on a console writer
ConsoleEmit ==
    /\ call.op = "emit" /\ ~UnknownOption
    /\ _writer.cls = "ConsoleOutputWriter"
Prefix(level) ==
    CASE level = "debug" -> <<"DEBUG: ">>
      [] level = "info" -> <<>>
      [] level = "warning" -> <<"WARNING: ">>
      [] level = "error" -> <<"ERROR: ">>
      [] level = "exception" -> <<"EXCEPTION: ">>
\* the line of a message of the call's level, or the formatting failure
Rendering == _format_message(Prefix(call.level) \o call.a.message, call.a.args)
Suppressed ==
    \/ call.level = "debug" /\ ~_writer._debug
    \/ call.level = "info" /\ _writer._quiet
PrintedOn(stream) ==
    IF Rendering.exc = "none"
    THEN printed = <<[stream |-> stream, text |-> Rendering.text]>>
    ELSE printed = <<>> /\ outcome = Rendering.exc

\* C13: on a console writer a debug message is printed, on standard error,
\* exactly when the writer was constructed with debug=True, and an info
\* message, on standard output, exactly when it was constructed with
\* quiet=False; warning, error and exception messages are printed on
\* standard error whatever the two options are.  Each printed message is
\* one line.
C13_DebugQuiet ==
    ConsoleEmit =>
        /\ Suppressed => printed = <<>>
        /\ ~Suppressed =>
              PrintedOn(IF call.level = "info" THEN "stdout" ELSE "stderr")
        /\ call.level \in {"warning", "error", "exception"} => ~Suppressed

\* C13 witness: on a console writer constructed with debug=True and
\* quiet=True a debug message was printed on standard error
C13_Witness ==
    /\ ConsoleEmit /\ call.level = "debug"
    /\ _writer._debug /\ _writer._quiet
    /\ printed = <<[stream |-> "stderr", text |-> <<"DEBUG: ", "msg">>]>>

\* an exception() call with options it knows and a message without
\* arguments, made while a writer is active
ExceptionCall ==
    /\ call.op = "emit" /\ call.level = "exception" /\ ~UnknownOption
    /\ call.a.args = <<>>
    /\ OnWriter
RaiseException == Pop(call.kwargs, "raise_exception", "None")
Log == Pop(call.kwargs, "log", TRUE)
\* the steps of a severity call of the call's level up to the logging step
WriterSteps ==
    (IF call.level \in {"error", "exception"} /\ ~Ignore
     THEN <<"error_occurred = True", "error_occurred">> ELSE <<>>)
    \o <<call.level>>
\* the steps of a complete emit of the call's level
EmitSteps ==
    WriterSteps \o (IF Log THEN <<"logger.log">> ELSE <<>>)
\* the call is to be logged and its caller belongs to no module: the lookup
\* of the caller's logger fails
NoLogger == Log /\ call.a.caller = None

\* C14: exception(..., raise_exception=X) first emits the message in full:
\* the error state is set and the hook called unless ignore, the writer's
\* exception method is called (the console writer prints the line), and the
\* message is logged unless log=False.  Then it raises the result of X for a
\* callable X, X itself for an exception object, and for another true X the
\* exception the caller is handling; it returns normally when X is left out
\* or false.  An emit that fails does not get to X: when the logger of the
\* caller cannot be found (a caller in no module) the call ends with that
\* failure, an AttributeError, after the writer's method and before logging.
C14_RaiseAfterEmit ==
    ExceptionCall =>
        /\ error_occurred = (call.pre.error_occurred \/ ~Ignore)
        /\ _writer.cls = "ConsoleOutputWriter" =>
              printed = <<[stream |-> "stderr",
                           text |-> <<"EXCEPTION: ">> \o call.a.message]>>
        /\ NoLogger =>
              /\ steps = WriterSteps /\ logged = <<>>
              /\ outcome = "AttributeError"
        /\ ~NoLogger =>
              /\ steps = EmitSteps
              /\ Len(logged) = (IF Log THEN 1 ELSE 0)
              /\ RaiseException \in {"None", "False"} => outcome = "return"
              /\ RaiseException = "callable" =>
                    outcome = "raise_exception(message)"
              /\ RaiseException = "error" => outcome = "raise_exception"
              /\ (RaiseException = "True" /\ call.a.handled # "None") =>
                    outcome = call.a.handled

\* C14 witness: exception(msg, raise_exception=True) called while an IOError
\* is handled recorded the error, logged the message and raised the IOError
\* again
C14_Witness ==
    /\ ExceptionCall /\ RaiseException = "True"
    /\ call.a.handled = "IOError" /\ outcome = "IOError"
    /\ ~call.pre.error_occurred /\ error_occurred
    /\ Len(logged) = 1

NagiosWriter(w) == w.cls = "NagiosOutputWriter"

\* C15: there is one active writer, and it changes in set_output_writer
\* only.  After set_output_writer("console", debug, quiet) it is an instance
\* constructed by that call: a ConsoleOutputWriter with these options, empty
\* lists and the minimal flag off.  After set_output_writer(x) with any
\* other x it is x itself: the instance the caller constructed, and for
\* "nagios", which the registry does not know, the name, not a Nagios
\* writer.  A Nagios writer becomes active only when an instance is passed.
\* (A call that finds the name active fails at its close() and installs
\* nothing: C4.)
C15_OneActiveWriter ==
    [][/\ _writer'.id # _writer.id => SetWriter'
       /\ ((SetWriter /\ OnWriter) =>
              /\ outcome = "return"
              /\ IF call.a.isname /\ call.a.name = "console"
                 THEN /\ _writer = NewWriter(created, "ConsoleOutputWriter",
                                             call.a.f[1], call.a.f[2])
                      /\ _writer.id # call.pre._writer.id
                 ELSE _writer = call.a.obj)'
       /\ (NagiosWriter(_writer)' /\ ~NagiosWriter(_writer)) =>
              (SetWriter /\ ~call.a.isname)'
      ]_vars

\* C15 witness: set_output_writer("nagios") returned and the active writer
\* is the name, not a Nagios writer
C15_Witness ==
    /\ SetWriter /\ call.a.isname /\ call.a.name = "nagios"
    /\ outcome = "return"
    /\ _writer.cls = "str"

\* the % operator, stated position by position.  Conversions(t, i) is the
\* number of conversions among the first i tokens of t that take an argument
Conversions(t, i) ==
    Cardinality({j \in 1..i : t[j] \in {"%s", "%z", "%(a)s", "%(b)s"}})
Literal(token) == IF token = "%%" THEN "%" ELSE token
\* t % args for a tuple: the i-th "%s" is replaced by the i-th argument;
\* the first token that cannot be converted decides the failure
FailsPositional(t, args, i) ==
    \/ t[i] \in {"%(a)s", "%(b)s", "%z"}
    \/ t[i] = "%s" /\ Conversions(t, i) > Len(args)
Positional(t, args) ==
    LET bad == {i \in 1..Len(t) : FailsPositional(t, args, i)}
    IN IF bad # {}
       THEN LET i == CHOOSE i \in bad : \A j \in bad : i <= j
            IN FormatError(IF t[i] = "%z" /\ Conversions(t, i) <= Len(args)
                           THEN "ValueError" ELSE "TypeError")
       ELSE IF Conversions(t, Len(t)) < Len(args) THEN FormatError("TypeError")
       ELSE Formatted([i \in 1..Len(t) |->
                IF t[i] = "%s" THEN args[Conversions(t, i)].str
                ELSE Literal(t[i])])
\* t % d for a dict: a keyed conversion is replaced by the value of its key,
\* a "%s" that is the first conversion by the dict itself
FailsKeyed(t, d, i) ==
    \/ t[i] \in {"%(a)s", "%(b)s"} /\ KeyedTokens[t[i]] \notin DOMAIN d.map
    \/ t[i] = "%z"
    \/ t[i] = "%s" /\ Conversions(t, i) > 1
Keyed(t, d) ==
    LET bad == {i \in 1..Len(t) : FailsKeyed(t, d, i)}
    IN IF bad # {}
       THEN LET i == CHOOSE i \in bad : \A j \in bad : i <= j
            IN FormatError(IF t[i] \in {"%(a)s", "%(b)s"} THEN "KeyError"
                           ELSE IF t[i] = "%z" /\ Conversions(t, i) = 1
                           THEN "ValueError" ELSE "TypeError")
       ELSE Formatted([i \in 1..Len(t) |->
                IF t[i] = "%s" THEN d.str
                ELSE IF t[i] \in {"%(a)s", "%(b)s"} THEN d.map[KeyedTokens[t[i]]]
                ELSE Literal(t[i])])
FormatCalled == call.op = "_format_message" /\ pc = "done"

\* C16: _format_message(message, args) picks the substitution by args
\* alone: for an empty args the message is returned as it is, conversions
\* and "%%" included; for one argument that is a dict the result, or the
\* failure, is that of message % args[0]; for any other args it is that of
\* message % args, the arguments taken in order.
C16_FormatModes ==
    FormatCalled =>
        returned =
            IF call.args = <<>> THEN Formatted(call.message)
            ELSE IF Len(call.args) = 1 /\ call.args[1].isdict
            THEN Keyed(call.message, call.args[1])
            ELSE Positional(call.message, call.args)

\* C16 witness: a message with a conversion and a "%%" was returned
\* unchanged for an empty argument list
C16_Witness ==
    /\ FormatCalled /\ call.args = <<>>
    /\ call.message = <<"text", "%s", "%%">>
    /\ returned = [exc |-> "none", text |-> <<"text", "%s", "%%">>]

\* a severity call whose message the console writer could not format
RenderFails == ConsoleEmit /\ ~Suppressed /\ Rendering.exc # "none"

\* C17: a severity call does its steps in one order: for a message flagged
\* as an error the assignment of error_occurred, then the writer's
\* error_occurred() hook, then, for every message, the writer's method of
\* the same name, then logger.log unless log=False, and no step twice.  In
\* every facade call (init and result on the unsupported-command path
\* included) the hook comes right after the assignment and right before the
\* rendering method, and logging right after a rendering method.  Only a
\* failure of a step ends the call before logging, with that failure: the
\* rendering method cannot format the message, or the logger of the caller
\* cannot be found (a caller in no module, AttributeError).  When the active
\* object is no writer, the call ends with an AttributeError at the first
\* writer method it needs: after the assignment for a message flagged as an
\* error, before any step for another message.
C17_EmitOrder ==
    /\ (call.op = "emit" /\ ~UnknownOption /\ ~OnWriter) =>
          /\ outcome = "AttributeError"
          /\ steps = IF call.level \in {"error", "exception"} /\ ~Ignore
                     THEN <<"error_occurred = True">> ELSE <<>>
    /\ (call.op = "emit" /\ ~UnknownOption /\ OnWriter) =>
          IF RenderFails
          THEN steps = WriterSteps /\ outcome = Rendering.exc
          ELSE IF NoLogger
          THEN steps = WriterSteps /\ outcome = "AttributeError"
          ELSE steps = EmitSteps
    /\ ~OnWriter => steps \in {<<>>, <<"error_occurred = True">>}
    /\ OnWriter => \A i \in 1..Len(steps) :
          /\ steps[i] = "error_occurred" =>
                /\ i > 1 /\ steps[i - 1] = "error_occurred = True"
                /\ i < Len(steps) /\ steps[i + 1] \in {"error", "exception"}
          /\ steps[i] = "error_occurred = True" =>
                i < Len(steps) /\ steps[i + 1] = "error_occurred"
          /\ steps[i] = "logger.log" => i > 1 /\ steps[i - 1] \in Levels

\* C17 witness: error(msg) on a console writer, with no error recorded
\* before: the assignment, the hook, the error method, the log record
C17_Witness ==
    /\ call.op = "emit" /\ call.level = "error"
    /\ _writer.cls = "ConsoleOutputWriter"
    /\ ~call.pre.error_occurred /\ error_occurred
    /\ steps = <<"error_occurred = True", "error_occurred", "error",
                 "logger.log">>
    /\ Len(printed) = 1 /\ Len(logged) = 1

Dispatched == call.op \in {"init", "result"}
\* the active writer has a callable init_<command> / result_<command>
HandlerExists ==
    Dispatched /\ OnWriter /\ MethodName(call.op, call.command) \in Methods
\* the call reported an unsupported command: the exception message of init
\* and result
ReportedUnsupported ==
    \E i \in 1..Len(logged) :
        logged[i].message =
            <<"The ", "%s", " writer does not support the \"", "%s",
              "\" command">>
HandlerCalls ==
    Cardinality({i \in 1..Len(events) :
                    events[i].m = MethodName(call.op, call.command)})

\* C18: init(command) and result(command) report an unsupported command and
\* terminate only when the active writer has no callable init_<command> /
\* result_<command>.  When it has one, the handler is invoked exactly once,
\* and the call either returns or ends with the failure raised in the
\* handler: the failure is not reported as an unsupported command and the
\* process does not exit.
C18_HandlerFailurePropagates ==
    HandlerExists =>
        /\ HandlerCalls = 1
        /\ ~ReportedUnsupported
        /\ pc # "exited"
        /\ outcome # "SystemExit"

\* the logging severity of the functions of the facade
Severity ==
    [level \in Levels |->
        CASE level = "debug" -> "DEBUG"
          [] level = "info" -> "INFO"
          [] level = "warning" -> "WARNING"
          [] level \in {"error", "exception"} -> "ERROR"]
WriterInvoked ==
    \E i \in 1..Len(events) : events[i] = [w |-> _writer.id, m |-> call.level]

\* C19: a severity call with options it knows invokes the writer's method of
\* its name, and then, unless log=False, sends exactly one record to
\* logging: the message and its arguments, unformatted, at the severity of
\* the function, ERROR with the stack trace for exception.  This is so
\* whether the writer printed the message or not (debug off, quiet on, the
\* Nagios writer).  The record goes to the logger named after the module of
\* the caller.  With log=False no record is sent.  When the console writer
\* fails to format the message, or the caller belongs to no module, so that
\* its logger cannot be found, the call ends with that failure and no record
\* is sent; the same when the active object is no writer and has no method
\* to invoke.
C19_LoggedOnce ==
    /\ (call.op = "emit" /\ ~OnWriter) => logged = <<>> /\ events = <<>>
    /\ (call.op = "emit" /\ ~UnknownOption /\ OnWriter) =>
        /\ WriterInvoked
        /\ logged =
              IF Log /\ ~RenderFails /\ ~NoLogger
              THEN <<[name |-> call.a.caller.str,
                      level |-> Severity[call.level],
                      message |-> call.a.message, args |-> call.a.args,
                      exc_info |-> (call.level = "exception")]>>
              ELSE <<>>
        /\ (NoLogger /\ ~RenderFails) => outcome = "AttributeError"

\* C19 witness: exception(msg) on a Nagios writer printed nothing and sent
\* one ERROR record with the stack trace
C19_Witness ==
    /\ call.op = "emit" /\ call.level = "exception"
    /\ _writer.cls = "NagiosOutputWriter"
    /\ printed = <<>>
    /\ logged = <<[name |-> "barman.cli", level |-> "ERROR",
                   message |-> <<"msg">>, args |-> <<>>, exc_info |-> TRUE]>>

CheckList == _writer.result_check_list
IsPrefix(s, t) == Len(s) <= Len(t) /\ SubSeq(t, 1, Len(s)) = s

\* C20: the CheckResult list of the active writer is empty when the writer
\* is constructed, and as long as the writer stays active every step leaves
\* the list a prefix of what it becomes: result("check") adds one record at
\* the end, every other call (messages, init, the other result commands,
\* close, the caller going on) leaves the list as it is.  A writer that
\* becomes active by set_output_writer has its own, empty list: no record
\* of the replaced writer is in it.
C20_CheckListAppendOnly ==
    /\ CheckList = <<>>
    /\ [][IF _writer'.id = _writer.id
          THEN /\ IsPrefix(CheckList, CheckList')
               /\ Len(CheckList') =
                     Len(CheckList) + (IF ResultCheck' THEN 1 ELSE 0)
          ELSE SetWriter' /\ (HasMethods(_writer') => CheckList' = <<>>)
         ]_vars

\* C20 witness: a writer holding two CheckResults was replaced, and the list
\* of the writer now active is empty
C20_Witness ==
    /\ SetWriter
    /\ Len(call.pre._writer.result_check_list) = 2
    /\ _writer.id # call.pre._writer.id
    /\ _writer.result_check_list = <<>>

ExitCodes ==
    /\ error_exit_code \in {1, 2}
    /\ error_exit_code = 2 => error_occurred
    /\ pc = "exited" =>
          /\ exit_status \in {0, 1, 2}
          /\ exit_status = 0 <=> ~error_occurred
          /\ exit_status = 2 <=> (error_occurred /\ error_exit_code = 2)

\* C21: error_exit_code is 1 or 2 in every state, and 2 only with the error
\* state set.  It changes in one way only: from 1 to 2, in a call that
\* closes a Nagios writer holding a failed check; no step takes it back,
\* the replacement of that writer and the close of a later writer without
\* failed checks included.  A process that exits therefore exits with 0
\* exactly when no error is recorded, with 2 exactly when an error is
\* recorded and a Nagios close has escalated the code, and with 1 otherwise.
C21_ExitCodes ==
    /\ ExitCodes
    /\ [][/\ ExitCodes'
          /\ error_exit_code' # error_exit_code =>
                /\ error_exit_code = 1 /\ error_exit_code' = 2
                /\ (NagiosClosed /\ FailedServers # {})'
         ]_vars

\* C21 witness: a Nagios writer with a failed check was replaced by a
\* console writer, and close_and_exit on that writer, which found the exit
\* code at 2, exited with 2
C21_Witness ==
    /\ call.op = "close_and_exit"
    /\ call.pre._writer.cls = "ConsoleOutputWriter"
    /\ call.pre.error_exit_code = 2
    /\ pc = "exited" /\ exit_status = 2

====
